---- MODULE Spec2Model ----
(***************************************************************************)
(* Model of the ChatLoop API server (src/api-server.py): the request       *)
(* router of POST /api/chat, the in-memory session store, the status       *)
(* counters and the canned-response generators.                            *)
(*                                                                         *)
(* A Python str is a sequence of one-character strings, so that lower(),   *)
(* the substring test `in`, replace() and strip() are computed and not     *)
(* assumed.  A JSON value is a record [k |-> kind, s |-> text]: kind is    *)
(* "str", "num", "null", "list" or "absent" (the key is not in the         *)
(* object), and s the characters of a string (or of the literal).          *)
(***************************************************************************)
EXTENDS Integers, Sequences, FiniteSets, TLC

(***************************************************************************)
(* Text                                                                    *)
(***************************************************************************)
UpperLetters == <<"A", "B", "C", "D", "E", "F", "G", "H", "I", "J", "K", "L", "M",
                  "N", "O", "P", "Q", "R", "S", "T", "U", "V", "W", "X", "Y", "Z">>

LowerLetters == <<"a", "b", "c", "d", "e", "f", "g", "h", "i", "j", "k", "l", "m",
                  "n", "o", "p", "q", "r", "s", "t", "u", "v", "w", "x", "y", "z">>

\* one character of str.lower()
LowerChar(c) ==
    IF \E i \in DOMAIN UpperLetters : UpperLetters[i] = c
    THEN LowerLetters[CHOOSE i \in DOMAIN UpperLetters : UpperLetters[i] = c]
    ELSE c

\* str.lower()
Lower(s) == [i \in 1..Len(s) |-> LowerChar(s[i])]

\* sub in s, for two str
Contains(sub, s) ==
    \E i \in 0..(Len(s) - Len(sub)) : SubSeq(s, i + 1, i + Len(sub)) = sub

\* any(word in s for word in words)
AnyIn(words, s) == \E i \in DOMAIN words : Contains(words[i], s)

(***************************************************************************)
(* The string literals of the router and the generators                    *)
(***************************************************************************)
W_generate == <<"g", "e", "n", "e", "r", "a", "t", "e">>

W_create == <<"c", "r", "e", "a", "t", "e">>

W_improve == <<"i", "m", "p", "r", "o", "v", "e">>

W_empirical == <<"e", "m", "p", "i", "r", "i", "c", "a", "l">>

W_benchmark == <<"b", "e", "n", "c", "h", "m", "a", "r", "k">>

W_chat == <<"c", "h", "a", "t">>

W_default == <<"d", "e", "f", "a", "u", "l", "t">>

W_python == <<"p", "y", "t", "h", "o", "n">>

W_javascript == <<"j", "a", "v", "a", "s", "c", "r", "i", "p", "t">>

W_js == <<"j", "s">>

W_self == <<"s", "e", "l", "f">>

W_system == <<"s", "y", "s", "t", "e", "m">>

SelfGenerationWords ==
    <<<<"g", "e", "n", "e", "r", "a", "t", "e">>,
      <<"c", "r", "e", "a", "t", "e">>,
      <<"b", "u", "i", "l", "d">>,
      <<"i", "m", "p", "r", "o", "v", "e">>,
      <<"b", "e", "t", "t", "e", "r">>,
      <<"s", "y", "s", "t", "e", "m">>>>

CodeWords ==
    <<<<"c", "o", "d", "e">>,
      <<"p", "y", "t", "h", "o", "n">>,
      <<"j", "a", "v", "a", "s", "c", "r", "i", "p", "t">>,
      <<"r", "e", "a", "c", "t">>,
      <<"a", "p", "i">>,
      <<"f", "u", "n", "c", "t", "i", "o", "n">>>>

QuestionWords ==
    <<<<"h", "o", "w">>,
      <<"w", "h", "a", "t">>,
      <<"w", "h", "y">>,
      <<"e", "x", "p", "l", "a", "i", "n">>,
      <<"h", "e", "l", "p">>,
      <<"d", "e", "b", "u", "g">>>>

SuggestionWords ==
    <<<<"s", "u", "g", "g", "e", "s", "t">>,
      <<"r", "e", "c", "o", "m", "m", "e", "n", "d">>,
      <<"i", "d", "e", "a">>,
      <<"f", "e", "a", "t", "u", "r", "e">>>>

StatusWords ==
    <<<<"s", "t", "a", "t", "u", "s">>,
      <<"v", "e", "r", "s", "i", "o", "n">>,
      <<"w", "o", "r", "k">>,
      <<"d", "o">>,
      <<"c", "a", "n">>>>
Languages ==
    <<<<"p", "y", "t", "h", "o", "n">>,
      <<"j", "a", "v", "a", "s", "c", "r", "i", "p", "t">>,
      <<"r", "e", "a", "c", "t">>,
      <<"g", "o">>,
      <<"r", "u", "s", "t">>,
      <<"j", "a", "v", "a">>,
      <<"c", "+", "+">>,
      <<"t", "y", "p", "e", "s", "c", "r", "i", "p", "t">>>>

DefaultLanguage == <<"P", "y", "t", "h", "o", "n">>

Whitespace == {" ", "\t", "\n"}

IsLetter(c) ==
    \/ \E i \in DOMAIN UpperLetters : UpperLetters[i] = c
    \/ \E i \in DOMAIN LowerLetters : LowerLetters[i] = c

UpperChar(c) ==
    IF \E i \in DOMAIN LowerLetters : LowerLetters[i] = c
    THEN UpperLetters[CHOOSE i \in DOMAIN LowerLetters : LowerLetters[i] = c]
    ELSE c

\* str.title(): a letter that follows a non-letter is upper-cased, any other lower-cased
Title(s) ==
    [i \in 1..Len(s) |->
        IF i = 1 \/ ~IsLetter(s[i - 1]) THEN UpperChar(s[i]) ELSE LowerChar(s[i])]

\* s.replace(old, ''): the occurrences of old, left to right and not overlapping, removed
RECURSIVE Remove(_, _)
Remove(s, old) ==
    IF Len(old) = 0 \/ Len(s) < Len(old) THEN s
    ELSE IF SubSeq(s, 1, Len(old)) = old
         THEN Remove(SubSeq(s, Len(old) + 1, Len(s)), old)
         ELSE <<Head(s)>> \o Remove(Tail(s), old)

RECURSIVE LStrip(_)
LStrip(s) == IF s # <<>> /\ Head(s) \in Whitespace THEN LStrip(Tail(s)) ELSE s

RECURSIVE RStrip(_)
RStrip(s) ==
    IF s # <<>> /\ s[Len(s)] \in Whitespace THEN RStrip(SubSeq(s, 1, Len(s) - 1)) ELSE s

\* str.strip()
Strip(s) == RStrip(LStrip(s))

(***************************************************************************)
(* JSON values and Python results                                          *)
(***************************************************************************)
Str(s) == [k |-> "str", s |-> s]

Absent == [k |-> "absent", s |-> <<>>]

\* type(v).__name__ of the Python value a JSON value of kind k is parsed to
TypeName(k) ==
    CASE k = "str" -> "str"
      [] k = "num" -> "int"
      [] k = "null" -> "NoneType"
      [] k = "list" -> "list"
      [] OTHER -> "dict"

\* str(e) of the AttributeError of value.attr on a value of kind k
AttributeError(k, attr) ==
    "'" \o TypeName(k) \o "' object has no attribute '" \o attr \o "'"

\* a response text: the template returned and the values interpolated into it
Text(template, args) == [template |-> template, args |-> args]

NoText == Text("", <<>>)

Returned(text) == [raised |-> FALSE, error |-> "", value |-> text]

Raised(error) == [raised |-> TRUE, error |-> error, value |-> NoText]

(***************************************************************************)
(* Response generators                                                     *)
(***************************************************************************)
\* the keywords looked for in the message as it was sent
extract_language_cased(message) ==
    LET found == {i \in DOMAIN Languages : Contains(Languages[i], message)}
    IN  IF found # {}
        THEN Title(Languages[CHOOSE i \in found : \A j \in found : i <= j])
        ELSE DefaultLanguage

extract_language(message) ==
    LET message_lower == Lower(message)
        found == {i \in DOMAIN Languages : Contains(Languages[i], message_lower)}
    IN  IF found # {}
        THEN Title(Languages[CHOOSE i \in found : \A j \in found : i <= j])
        ELSE DefaultLanguage

extract_description(message) == Strip(Remove(Remove(message, W_generate), W_create))

process_code_generation(message) ==
    IF message.k # "str" THEN Raised(AttributeError(message.k, "lower"))
    ELSE IF Contains(W_generate, Lower(message.s)) \/ Contains(W_create, Lower(message.s))
         THEN Returned(Text("generating_code",
                            <<extract_language(message.s), extract_description(message.s)>>))
         ELSE Returned(Text("code_capabilities", <<>>))

\* the gate tested on the message as it was sent
process_empirical_improvement_cased(message) ==
    IF message.k # "str" THEN Raised(AttributeError(message.k, "lower"))
    ELSE IF Contains(W_improve, message.s) \/ Contains(W_empirical, message.s)
         THEN Returned(Text("empirical_improvement_results", <<>>))
         ELSE Returned(Text("empirical_improvement_hint", <<>>))

process_empirical_improvement(message) ==
    IF message.k # "str" THEN Raised(AttributeError(message.k, "lower"))
    ELSE IF Contains(W_improve, Lower(message.s)) \/ Contains(W_empirical, Lower(message.s))
         THEN Returned(Text("empirical_improvement_results", <<>>))
         ELSE Returned(Text("empirical_improvement_hint", <<>>))

process_benchmarking(message) == Returned(Text("performance_benchmarks", <<>>))

get_code_response(message) ==
    LET message_lower == Lower(message)
    IN  IF Contains(W_python, message_lower) THEN Text("code_python", <<>>)
        ELSE IF Contains(W_javascript, message_lower) \/ Contains(W_js, message_lower)
             THEN Text("code_javascript", <<>>)
        ELSE IF \/ Contains(W_self, message_lower)
                \/ Contains(W_generate, message_lower)
                \/ Contains(W_system, message_lower)
             THEN Text("code_self_generation", <<>>)
        ELSE Text("code_multi_language", <<>>)

get_help_response(message) == Text("technical_assistance", <<>>)

get_suggestion_response(message) == Text("smart_suggestions", <<>>)

get_system_response(message) == Text("system_status", <<>>)

get_contextual_response(message) == Text("independent_ai", <<message>>)

\* the definition in effect: the second one of the class body replaces the first
get_self_generation_response(message) == Text("self_generating_ai_system", <<>>)

\* the question category tested before the code category
get_independent_response_question_first(message) ==
    IF message.k # "str" THEN Raised(AttributeError(message.k, "lower"))
    ELSE LET message_lower == Lower(message.s)
         IN  Returned(
                 IF AnyIn(SelfGenerationWords, message_lower)
                 THEN get_self_generation_response(message.s)
                 ELSE IF AnyIn(QuestionWords, message_lower) THEN get_help_response(message.s)
                 ELSE IF AnyIn(CodeWords, message_lower) THEN get_code_response(message.s)
                 ELSE IF AnyIn(SuggestionWords, message_lower)
                      THEN get_suggestion_response(message.s)
                 ELSE IF AnyIn(StatusWords, message_lower) THEN get_system_response(message.s)
                 ELSE get_contextual_response(message.s))

get_independent_response(message) ==
    IF message.k # "str" THEN Raised(AttributeError(message.k, "lower"))
    ELSE LET message_lower == Lower(message.s)
         IN  Returned(
                 IF AnyIn(SelfGenerationWords, message_lower)
                 THEN get_self_generation_response(message.s)
                 ELSE IF AnyIn(CodeWords, message_lower) THEN get_code_response(message.s)
                 ELSE IF AnyIn(QuestionWords, message_lower) THEN get_help_response(message.s)
                 ELSE IF AnyIn(SuggestionWords, message_lower)
                      THEN get_suggestion_response(message.s)
                 ELSE IF AnyIn(StatusWords, message_lower) THEN get_system_response(message.s)
                 ELSE get_contextual_response(message.s))

process_chat_message(message) == get_independent_response(message)

(***************************************************************************)
(* Bounds of the model                                                     *)
(***************************************************************************)
\* POST /api/chat requests that pass the message check, in Spec
MaxRequests == 3

\* POST /api/chat requests that pass the message check, in SpecRouter
MaxRouterRequests == 2

\* POST /api/sessions requests
MaxCreates == 2

\* calls of datetime.now() up to which GET /health is taken
MaxClock == 4

\* POST /api/chat requests that pass the message check, in SpecGenerators
MaxGeneratorRequests == 1

\* the number of frames at which the interpreter raises RecursionError, scaled down from
\* the interpreter's 1000
RecursionLimit == 6

\* POST /api/chat requests of the repeating client of SpecWindow
MaxWindowRequests == 102

(***************************************************************************)
(* State                                                                   *)
(***************************************************************************)
VARIABLES
    chat_sessions,   \* self.chat_sessions: session id -> list of entries
    system_status,   \* self.system_status
    now,             \* the clock: the value the next datetime.now() returns
    request,         \* the request handled last: [endpoint, data, session_id]
    resp,            \* the response to it: [endpoint, status, body]
    appended,        \* history: session id -> every entry appended since it was created
    appends,         \* history: the number of entries appended, to any session
    issued,          \* history: the ids POST /api/sessions returned, in order
    workers          \* the worker threads: [pc, data, read, counted, stack, result, resp]

vars ==
    <<chat_sessions, system_status, now, request, resp, appended, appends, issued, workers>>

\* the threads of the development server that handle requests at the same time
Workers == {"w1", "w2"}

\* the number of messages a session keeps
MaxSessionMessages == 100

W_message == <<"m", "e", "s", "s", "a", "g", "e">>

Null == [k |-> "null", s |-> <<>>]

(***************************************************************************)
(* Request bodies: the value request.get_json() returns.  k is "none"      *)
(* (None), "obj", "num" or "list"; an object has the three keys the        *)
(* handler reads (each a JSON value, or Absent) and `extra` other keys.    *)
(* Timestamps are readings of the clock `now`, which every datetime.now()  *)
(* advances by one; the key list of GET /api/sessions is kept as a set.    *)
(***************************************************************************)
NoContext == [k |-> "absent", tool |-> Absent]

Context(tool) == [k |-> "obj", tool |-> tool]

NotAnObject(kind) == [k |-> kind, tool |-> Absent]

Object(message, session_id, context, extra) ==
    [k |-> "obj", num |-> 0, items |-> <<>>, extra |-> extra,
     message |-> message, session_id |-> session_id, context |-> context]

NoBody == [Object(Absent, Absent, NoContext, 0) EXCEPT !.k = "none"]

Number(n) == [Object(Absent, Absent, NoContext, 0) EXCEPT !.k = "num", !.num = n]

List(items) == [Object(Absent, Absent, NoContext, 0) EXCEPT !.k = "list", !.items = items]

\* bool(data)
Truthy(data) ==
    CASE data.k = "none" -> FALSE
      [] data.k = "num" -> data.num # 0
      [] data.k = "list" -> data.items # <<>>
      [] OTHER -> \/ data.message # Absent
                  \/ data.session_id # Absent
                  \/ data.context.k # "absent"
                  \/ data.extra > 0

\* hash(v) is defined: v can be a dict key
Hashable(v) == v.k \notin {"list", "obj"}

Parsed(message, session_id, tool_mode) ==
    [outcome |-> "parsed", error |-> "",
     message |-> message, session_id |-> session_id, tool_mode |-> tool_mode]

Invalid == [Parsed(Absent, Absent, Absent) EXCEPT !.outcome = "invalid"]

ParseRaised(error) ==
    [Parsed(Absent, Absent, Absent) EXCEPT !.outcome = "raised", !.error = error]

\* chat, from 'message' not in data to tool_mode
ReadBody(data) ==
    IF data.k \in {"none", "num"}
    THEN ParseRaised("argument of type '" \o TypeName(IF data.k = "none" THEN "null" ELSE "num")
                     \o "' is not iterable")
    ELSE IF data.k = "list"
         THEN IF \E i \in DOMAIN data.items : data.items[i] = W_message
              THEN ParseRaised("list indices must be integers or slices, not str")
              ELSE Invalid
    ELSE IF data.message = Absent THEN Invalid
    ELSE LET session_id == IF data.session_id = Absent THEN Str(W_default)
                           ELSE data.session_id
             context == data.context
         IN  IF context.k \notin {"absent", "obj"}
             THEN ParseRaised(AttributeError(context.k, "get"))
             ELSE Parsed(data.message, session_id,
                         IF context.k = "absent" \/ context.tool = Absent
                         THEN Str(W_chat) ELSE context.tool)

\* the test without `not data`
ParseChatNoTruthTest(data) == ReadBody(data)

\* chat, from request.get_json() to tool_mode
ParseChat(data) == IF ~Truthy(data) THEN Invalid ELSE ReadBody(data)

\* the comparison on tool_mode.lower()
DispatchLower(tool_mode, message) ==
    LET tool == IF tool_mode.k = "str" THEN Str(Lower(tool_mode.s)) ELSE tool_mode
    IN  IF tool = Str(W_generate) THEN process_code_generation(message)
        ELSE IF tool = Str(W_improve) THEN process_empirical_improvement(message)
        ELSE IF tool = Str(W_benchmark) THEN process_benchmarking(message)
        ELSE process_chat_message(message)

\* the else branch on the wrong generator
DispatchElseGenerate(tool_mode, message) ==
    IF tool_mode = Str(W_improve) THEN process_empirical_improvement(message)
    ELSE IF tool_mode = Str(W_benchmark) THEN process_benchmarking(message)
    ELSE IF tool_mode = Str(W_chat) THEN process_chat_message(message)
    ELSE process_code_generation(message)

\* chat: "Process based on tool mode"
Dispatch(tool_mode, message) ==
    IF tool_mode = Str(W_generate) THEN process_code_generation(message)
    ELSE IF tool_mode = Str(W_improve) THEN process_empirical_improvement(message)
    ELSE IF tool_mode = Str(W_benchmark) THEN process_benchmarking(message)
    ELSE process_chat_message(message)

\* the slice one too long: entries[-(MaxSessionMessages + 1):]
KeepLastOneMore(entries) ==
    IF Len(entries) > MaxSessionMessages + 1
    THEN SubSeq(entries, Len(entries) - MaxSessionMessages, Len(entries))
    ELSE entries

\* the slice from the wrong end: entries[:MaxSessionMessages]
KeepFirst(entries) ==
    IF Len(entries) > MaxSessionMessages
    THEN SubSeq(entries, 1, MaxSessionMessages)
    ELSE entries

\* entries[-MaxSessionMessages:] when there are more
KeepLast(entries) ==
    IF Len(entries) > MaxSessionMessages
    THEN SubSeq(entries, Len(entries) - MaxSessionMessages + 1, Len(entries))
    ELSE entries

\* sessions[session_id] = [] unless the key is there
Ensure(sessions, session_id) ==
    [sid \in DOMAIN sessions \cup {session_id} |->
        IF sid \in DOMAIN sessions THEN sessions[sid] ELSE <<>>]

\* the entry assigned instead of appended
StoreEntryAssign(sessions, session_id, entry) ==
    [Ensure(sessions, session_id) EXCEPT ![session_id] = <<entry>>]

\* the entry put first: insert(0, entry)
StoreEntryPrepend(sessions, session_id, entry) ==
    [Ensure(sessions, session_id) EXCEPT ![session_id] = KeepLast(<<entry>> \o @)]

\* the entry appended to every session of the store
StoreEntryShared(sessions, session_id, entry) ==
    [sid \in DOMAIN Ensure(sessions, session_id) |->
        KeepLast(Append(Ensure(sessions, session_id)[sid], entry))]

\* chat: "Store conversation in session"
StoreEntry(sessions, session_id, entry) ==
    [Ensure(sessions, session_id) EXCEPT ![session_id] = KeepLast(Append(@, entry))]

\* the mode of a tool outside generate, improve, benchmark stored as chat
EntryKnownMode(timestamp, message, response, tool_mode, session_id) ==
    [timestamp |-> timestamp, input |-> message, output |-> response,
     mode |-> IF tool_mode \in {Str(W_generate), Str(W_improve), Str(W_benchmark)}
              THEN tool_mode ELSE Str(W_chat),
     session_id |-> session_id]

Entry(timestamp, message, response, tool_mode, session_id) ==
    [timestamp |-> timestamp, input |-> message, output |-> response,
     mode |-> tool_mode, session_id |-> session_id]

\* a request as the handler sees it: the JSON body and the <session_id> of the path
Request(endpoint, data, session_id) ==
    [endpoint |-> endpoint, data |-> data, session_id |-> session_id]

Response(endpoint, status, body) == [endpoint |-> endpoint, status |-> status, body |-> body]

ErrorBody(error) == [error |-> error]

\* a worker thread that waits for a request
Idle ==
    [pc |-> "idle", data |-> NoBody, read |-> 0, counted |-> FALSE,
     stack |-> <<>>, result |-> Returned(NoText),
     resp |-> Response("", 0, ErrorBody(""))]

Init ==
    /\ chat_sessions = <<>>
    /\ system_status = [active |-> TRUE, version |-> "2.0.0", uptime |-> 0,
                        requests_processed |-> 0, last_improvement_run |-> Null,
                        independent_mode |-> TRUE, total_sessions |-> 0]
    /\ now = 1
    /\ request = Request("", NoBody, Absent)
    /\ resp = Response("", 0, ErrorBody(""))
    /\ appended = <<>>
    /\ appends = 0
    /\ issued = <<>>
    /\ workers = [w \in Workers |-> Idle]

\* the error text withheld
ExceptionResponseOpaque(error) == Response("chat", 500, ErrorBody("Internal Server Error"))

\* chat: except Exception as e
ExceptionResponse(error) == Response("chat", 500, ErrorBody(error))

\* the counter stepped the wrong way
CountedDown(status) == [status EXCEPT !.requests_processed = @ - 1]

\* chat: self.system_status['requests_processed'] += 1
Counted(status) == [status EXCEPT !.requests_processed = @ + 1]

\* the session made before the response is generated
ChatCreatingFirst(data, request_id) ==
    LET p == ParseChat(data)
        g == Dispatch(p.tool_mode, p.message)
        entry == Entry(now, p.message, g.value, p.tool_mode, p.session_id)
    IN  /\ request' = Request("chat", data, Absent)
        /\ workers' = workers
        /\ issued' = issued
        /\ CASE p.outcome = "invalid" ->
                  /\ resp' = Response("chat", 400, ErrorBody("Message required"))
                  /\ UNCHANGED <<chat_sessions, system_status, now, appended, appends>>
             [] p.outcome = "raised" ->
                  /\ resp' = ExceptionResponse(p.error)
                  /\ UNCHANGED <<chat_sessions, system_status, now, appended, appends>>
             [] OTHER ->
                  /\ system_status' = Counted(system_status)
                  /\ IF ~Hashable(p.session_id)
                     THEN /\ resp' = ExceptionResponse(
                                 "unhashable type: '" \o TypeName(p.session_id.k) \o "'")
                          /\ UNCHANGED <<chat_sessions, now, appended, appends>>
                     ELSE IF g.raised
                     THEN /\ resp' = ExceptionResponse(g.error)
                          /\ chat_sessions' = Ensure(chat_sessions, p.session_id)
                          /\ appended' = Ensure(appended, p.session_id)
                          /\ UNCHANGED <<now, appends>>
                     ELSE /\ chat_sessions' = StoreEntry(chat_sessions, p.session_id, entry)
                          /\ appended' = [Ensure(appended, p.session_id)
                                             EXCEPT ![p.session_id] = Append(@, entry)]
                          /\ appends' = appends + 1
                          /\ now' = now + 2
                          /\ resp' = Response("chat", 200,
                                 [response |-> g.value, mode |-> p.tool_mode,
                                  session_id |-> p.session_id, timestamp |-> now + 1,
                                  request_id |-> request_id, independent_mode |-> TRUE])

\* POST /api/chat with request.get_json() = data and secrets.token_hex(8) = request_id
Chat(data, request_id) ==
    LET p == ParseChat(data)
        g == Dispatch(p.tool_mode, p.message)
        entry == Entry(now, p.message, g.value, p.tool_mode, p.session_id)
    IN  /\ request' = Request("chat", data, Absent)
        /\ workers' = workers
        /\ issued' = issued
        /\ CASE p.outcome = "invalid" ->
                  /\ resp' = Response("chat", 400, ErrorBody("Message required"))
                  /\ UNCHANGED <<chat_sessions, system_status, now, appended, appends>>
             [] p.outcome = "raised" ->
                  /\ resp' = ExceptionResponse(p.error)
                  /\ UNCHANGED <<chat_sessions, system_status, now, appended, appends>>
             [] OTHER ->
                  /\ system_status' = Counted(system_status)
                  /\ IF g.raised
                     THEN /\ resp' = ExceptionResponse(g.error)
                          /\ UNCHANGED <<chat_sessions, now, appended, appends>>
                     ELSE IF ~Hashable(p.session_id)
                     THEN /\ resp' = ExceptionResponse(
                                 "unhashable type: '" \o TypeName(p.session_id.k) \o "'")
                          /\ UNCHANGED <<chat_sessions, now, appended, appends>>
                     ELSE /\ chat_sessions' = StoreEntry(chat_sessions, p.session_id, entry)
                          /\ appended' = [Ensure(appended, p.session_id)
                                             EXCEPT ![p.session_id] = Append(@, entry)]
                          /\ appends' = appends + 1
                          /\ now' = now + 2
                          /\ resp' = Response("chat", 200,
                                 [response |-> g.value, mode |-> p.tool_mode,
                                  session_id |-> p.session_id, timestamp |-> now + 1,
                                  request_id |-> request_id, independent_mode |-> TRUE])

\* the store assigned anew: self.chat_sessions = {session_id: []}
CreateSessionAlone(token) ==
    /\ chat_sessions' = [sid \in {Str(token)} |-> <<>>]
    /\ system_status' = [system_status EXCEPT !.total_sessions = @ + 1]
    /\ resp' = Response("create_session", 200,
                        [session_id |-> Str(token), created |-> now, status |-> "active"])
    /\ now' = now + 1
    /\ request' = Request("create_session", NoBody, Absent)
    /\ workers' = workers
    /\ issued' = Append(issued, Str(token))
    /\ appended' = [sid \in {Str(token)} |-> <<>>]
    /\ appends' = appends

\* POST /api/sessions with secrets.token_hex(8) = token
CreateSession(token) ==
    /\ chat_sessions' = [Ensure(chat_sessions, Str(token)) EXCEPT ![Str(token)] = <<>>]
    /\ system_status' = [system_status EXCEPT !.total_sessions = @ + 1]
    /\ resp' = Response("create_session", 200,
                        [session_id |-> Str(token), created |-> now, status |-> "active"])
    /\ now' = now + 1
    /\ request' = Request("create_session", NoBody, Absent)
    /\ workers' = workers
    /\ issued' = Append(issued, Str(token))
    /\ appended' = [Ensure(appended, Str(token)) EXCEPT ![Str(token)] = <<>>]
    /\ appends' = appends

\* the lookup that creates what it does not find (a defaultdict)
GetSessionCreating(session_id) ==
    /\ chat_sessions' = Ensure(chat_sessions, Str(session_id))
    /\ resp' = Response("get_session", 200,
                        [session_id |-> Str(session_id),
                         messages |-> chat_sessions'[Str(session_id)],
                         message_count |-> Len(chat_sessions'[Str(session_id)])])
    /\ request' = Request("get_session", NoBody, Str(session_id))
    /\ workers' = workers
    /\ appended' = Ensure(appended, Str(session_id))
    /\ UNCHANGED <<system_status, now, appends, issued>>

\* GET /api/sessions/<session_id>
GetSession(session_id) ==
    /\ resp' = IF Str(session_id) \in DOMAIN chat_sessions
               THEN Response("get_session", 200,
                             [session_id |-> Str(session_id),
                              messages |-> chat_sessions[Str(session_id)],
                              message_count |-> Len(chat_sessions[Str(session_id)])])
               ELSE Response("get_session", 404, ErrorBody("Session not found"))
    /\ request' = Request("get_session", NoBody, Str(session_id))
    /\ workers' = workers
    /\ UNCHANGED <<chat_sessions, system_status, now, appended, appends, issued>>

\* total_sessions of the status set to the number listed
GetSessionsSyncing ==
    /\ resp' = Response("get_sessions", 200,
                        [sessions |-> DOMAIN chat_sessions,
                         total_sessions |-> Cardinality(DOMAIN chat_sessions)])
    /\ request' = Request("get_sessions", NoBody, Absent)
    /\ workers' = workers
    /\ system_status' =
          [system_status EXCEPT !.total_sessions = Cardinality(DOMAIN chat_sessions)]
    /\ UNCHANGED <<chat_sessions, now, appended, appends, issued>>

\* GET /api/sessions
GetSessions ==
    /\ resp' = Response("get_sessions", 200,
                        [sessions |-> DOMAIN chat_sessions,
                         total_sessions |-> Cardinality(DOMAIN chat_sessions),
                         current_version |-> system_status.version])
    /\ request' = Request("get_sessions", NoBody, Absent)
    /\ workers' = workers
    /\ UNCHANGED <<chat_sessions, system_status, now, appended, appends, issued>>

\* GET /api/status
GetStatus ==
    /\ resp' = Response("get_status", 200, system_status)
    /\ request' = Request("get_status", NoBody, Absent)
    /\ workers' = workers
    /\ UNCHANGED <<chat_sessions, system_status, now, appended, appends, issued>>

\* GET /health
Health ==
    /\ resp' = Response("health", 200,
                        [status |-> "healthy", timestamp |-> now,
                         version |-> system_status.version,
                         uptime |-> (now + 1) - system_status.uptime,
                         requests |-> system_status.requests_processed])
    /\ now' = now + 2
    /\ request' = Request("health", NoBody, Absent)
    /\ workers' = workers
    /\ UNCHANGED <<chat_sessions, system_status, appended, appends, issued>>

\* the historical benchmark records; decimal numbers are written as their digits
get_benchmark_history ==
    << [date |-> "2024-09-30", accuracy |-> "100.0", performance |-> 85, memory |-> 456],
       [date |-> "2024-09-29", accuracy |-> "98.5", performance |-> 92, memory |-> 478],
       [date |-> "2024-09-28", accuracy |-> "95.2", performance |-> 105, memory |-> 492] >>

\* the body of GET /api/benchmark
Benchmarks ==
    [current_metrics |-> [accuracy |-> "100.0", performance |-> 85, memory |-> 456,
                          token_efficiency |-> "0.92"],
     improvements |-> [accuracy_delta |-> "+27.5%", performance_delta |-> "-43% faster",
                       memory_delta |-> "-11% usage", overall |-> "significant"],
     history |-> get_benchmark_history]

\* the call counted as a processed request
GetBenchmarksCounted ==
    /\ resp' = Response("get_benchmarks", 200, Benchmarks)
    /\ request' = Request("get_benchmarks", NoBody, Absent)
    /\ workers' = workers
    /\ system_status' = [system_status EXCEPT !.requests_processed = @ + 1]
    /\ UNCHANGED <<chat_sessions, now, appended, appends, issued>>

\* GET /api/benchmark
GetBenchmarks ==
    /\ resp' = Response("get_benchmarks", 200, Benchmarks)
    /\ request' = Request("get_benchmarks", NoBody, Absent)
    /\ workers' = workers
    /\ UNCHANGED <<chat_sessions, system_status, now, appended, appends, issued>>

\* datetime.isoformat() of a clock reading, a str
IsoFormat(time) == [k |-> "str", s |-> <<time>>]

\* run_empirical_improvement(), its datetime.now() returning time
run_empirical_improvement(time) ==
    [process |-> "empirical_improvement",
     stages |-> <<"baseline_measurement", "heuristic_refinement", "meta_learning",
                  "final_benchmarking", "report_generation">>,
     results |-> [accuracy_improvement |-> "+27.5%", performance_improvement |-> "-43%",
                  memory_optimization |-> "-11%", status |-> "completed"],
     timestamp |-> time]

\* the run counted as a processed request
RunImprovementCounted ==
    /\ system_status' = [system_status EXCEPT !.last_improvement_run = IsoFormat(now + 1),
                                              !.requests_processed = @ + 1]
    /\ resp' = Response("run_improvement", 200,
                        [success |-> TRUE, result |-> run_empirical_improvement(now),
                         timestamp |-> now + 2])
    /\ now' = now + 3
    /\ request' = Request("run_improvement", NoBody, Absent)
    /\ workers' = workers
    /\ UNCHANGED <<chat_sessions, appended, appends, issued>>

\* POST /api/improve
RunImprovement ==
    /\ system_status' = [system_status EXCEPT !.last_improvement_run = IsoFormat(now + 1)]
    /\ resp' = Response("run_improvement", 200,
                        [success |-> TRUE, result |-> run_empirical_improvement(now),
                         timestamp |-> now + 2])
    /\ now' = now + 3
    /\ request' = Request("run_improvement", NoBody, Absent)
    /\ workers' = workers
    /\ UNCHANGED <<chat_sessions, appended, appends, issued>>

W_component == <<"c", "o", "m", "p", "o", "n", "e", "n", "t">>

W_improved_chat == <<"i", "m", "p", "r", "o", "v", "e", "d", "_", "c", "h", "a", "t">>

W_advanced_api == <<"a", "d", "v", "a", "n", "c", "e", "d", "_", "a", "p", "i">>

W_self_improvement_engine ==
    <<"s", "e", "l", "f", "_", "i", "m", "p", "r", "o", "v", "e", "m", "e", "n", "t", "_", "e", "n", "g", "i", "n", "e">>

\* the body of POST /api/generate when it is an object: the 'component' key (a JSON
\* value, or Absent) and `extra` other keys
Component(component, extra) ==
    [k |-> "obj", num |-> 0, items |-> <<>>, extra |-> extra, component |-> component]

generate_improved_chat_interface ==
    [component |-> "improved_chat_interface", version |-> "2.0.0",
     features |-> <<"real_time_collaboration", "voice_integration",
                    "advanced_syntax_highlighting", "plugin_system", "auto_complete",
                    "mobile_responsive">>,
     code |-> "SelfImprovingChat",
     improvements |-> <<"Response quality: +65%", "Processing speed: -75% latency",
                        "Memory efficiency: -45% usage", "Feature completeness: +40%">>]

generate_advanced_api_server ==
    [component |-> "advanced_api_server", version |-> "2.0.0",
     features |-> <<"auto_scaling", "advanced_caching", "real_time_monitoring",
                    "load_balancing", "self_optimization", "comprehensive_logging">>,
     code |-> "AdvancedAPIServer",
     improvements |-> <<"Auto-scaling capabilities", "Redis caching integration",
                        "Grafana monitoring dashboards", "Load balancing algorithms",
                        "Self-optimization engine">>]

generate_self_improvement_engine ==
    [component |-> "self_improvement_engine", version |-> "3.0.0",
     features |-> <<"continuous_learning", "automatic_optimization",
                    "performance_prediction", "adaptive_scaling", "intelligent_caching",
                    "real_time_analytics">>,
     code |-> "SelfImprovementEngine",
     improvements |-> <<"Continuous learning algorithms",
                        "Automatic performance optimization",
                        "Predictive scaling capabilities", "Adaptive caching strategies",
                        "Real-time analytics and reporting",
                        "Intelligent resource allocation">>]

Generated(result) == [known |-> TRUE, result |-> result]

UnknownComponent == [known |-> FALSE, result |-> generate_improved_chat_interface]

\* the component compared without regard to letter case
GenerateComponentAnyCase(component) ==
    IF component.k # "str" THEN UnknownComponent
    ELSE IF Lower(component.s) = W_improved_chat
    THEN Generated(generate_improved_chat_interface)
    ELSE IF Lower(component.s) = W_advanced_api THEN Generated(generate_advanced_api_server)
    ELSE IF Lower(component.s) = W_self_improvement_engine
    THEN Generated(generate_self_improvement_engine)
    ELSE UnknownComponent

\* generate_system: "Generate the requested component"
GenerateComponent(component) ==
    IF component = Str(W_improved_chat) THEN Generated(generate_improved_chat_interface)
    ELSE IF component = Str(W_advanced_api) THEN Generated(generate_advanced_api_server)
    ELSE IF component = Str(W_self_improvement_engine)
    THEN Generated(generate_self_improvement_engine)
    ELSE UnknownComponent

\* POST /api/generate with request.get_json() = data
GenerateSystem(data) ==
    LET falsy == \/ data.k = "none"
                 \/ data.k = "num" /\ data.num = 0
                 \/ data.k = "list" /\ data.items = <<>>
                 \/ data.k = "obj" /\ data.component = Absent /\ data.extra = 0
        generated == GenerateComponent(data.component)
    IN  /\ request' = Request("generate_system", data, Absent)
        /\ workers' = workers
        /\ UNCHANGED <<chat_sessions, system_status, appended, appends, issued>>
        /\ IF falsy
           THEN /\ resp' = Response("generate_system", 400,
                                    ErrorBody("Component type required"))
                /\ now' = now
           ELSE IF data.k = "num"
           THEN /\ resp' = Response("generate_system", 500,
                                    ErrorBody("argument of type 'int' is not iterable"))
                /\ now' = now
           ELSE IF data.k = "list"
           THEN /\ resp' = IF \E i \in DOMAIN data.items : data.items[i] = W_component
                           THEN Response("generate_system", 500,
                                    ErrorBody("list indices must be integers or slices, not str"))
                           ELSE Response("generate_system", 400,
                                    ErrorBody("Component type required"))
                /\ now' = now
           ELSE IF data.component = Absent
           THEN /\ resp' = Response("generate_system", 400,
                                    ErrorBody("Component type required"))
                /\ now' = now
           ELSE IF ~generated.known
           THEN /\ resp' = Response("generate_system", 400,
                                    ErrorBody("Unknown component type"))
                /\ now' = now
           ELSE /\ resp' = Response("generate_system", 200,
                                    [success |-> TRUE, component |-> data.component,
                                     result |-> generated.result, timestamp |-> now])
                /\ now' = now + 1

(***************************************************************************)
(* The requests the clients send                                           *)
(***************************************************************************)
\* values of secrets.token_hex(8)
Tokens == {<<"a", "1">>, <<"b", "2">>}

M_hi == Str(<<"h", "i">>)

M_generate ==
    Str(<<"g", "e", "n", "e", "r", "a", "t", "e", " ", "a", " ",
          "p", "y", "t", "h", "o", "n", " ", "f", "u", "n", "c", "t", "i", "o", "n">>)

Five == [k |-> "num", s |-> <<"5">>]

EmptyList == [k |-> "list", s |-> <<"[", "]">>]

T_Generate == Str(<<"G", "e", "n", "e", "r", "a", "t", "e">>)

T_BENCHMARK == Str(<<"B", "E", "N", "C", "H", "M", "A", "R", "K">>)

T_Improve == Str(<<"I", "m", "p", "r", "o", "v", "e">>)

T_other == Str(<<"x", "y", "z">>)

KnownTools == {Str(W_generate), Str(W_improve), Str(W_benchmark)}

Contexts ==
    {NoContext, Context(Absent), Context(Null), Context(T_other)}
    \cup {Context(t) : t \in KnownTools \cup {Str(W_chat), T_Generate, T_BENCHMARK, T_Improve}}

Bodies ==
    {NoBody, Number(0), Number(5), List(<<>>), List(<<W_chat>>), List(<<W_message>>),
     Object(Absent, Absent, NoContext, 0), Object(Absent, Absent, NoContext, 1),
     Object(Absent, Str(<<"a", "1">>), Context(Str(W_generate)), 0)}
    \cup {Object(M_hi, Absent, c, 0) : c \in Contexts}
    \cup {Object(M_generate, Absent, c, 0) :
            c \in {NoContext, Context(Str(W_generate)), Context(T_Generate), Context(T_other)}}
    \cup {Object(M_hi, s, NoContext, 0) : s \in {Str(<<"a", "1">>), Null, EmptyList}}
    \cup {Object(Five, Absent, c, 0) :
            c \in {NoContext, Context(Str(W_improve)), Context(Str(W_benchmark))}}
    \cup {Object(M_hi, Absent, NotAnObject(kind), 0) : kind \in {"null", "str"}}

\* the bodies of the session and counter scenarios: two that are stored (to two
\* sessions), two that fail after the counter line, one that fails before it, one
\* without a message
SessionBodies ==
    {NoBody,
     Object(M_hi, Absent, NoContext, 0),
     Object(M_hi, Str(<<"a", "1">>), Context(Str(W_benchmark)), 0),
     Object(Five, Absent, NoContext, 0),
     Object(M_hi, EmptyList, NoContext, 0),
     Object(M_hi, Absent, NotAnObject("null"), 0)}

\* the <session_id> of GET /api/sessions/<session_id>
PathIds == {<<"a", "1">>, <<"z", "9">>}

Next ==
    \/ \E data \in SessionBodies, request_id \in Tokens :
          /\ system_status.requests_processed < MaxRequests
          /\ Chat(data, request_id)
    \/ \E token \in Tokens :
          /\ system_status.total_sessions < MaxCreates
          /\ CreateSession(token)
    \/ \E session_id \in PathIds : GetSession(session_id)
    \/ GetSessions
    \/ GetStatus
    \/ now < MaxClock /\ Health
    \/ GetBenchmarks

Spec == Init /\ [][Next]_vars

(***************************************************************************)
(* The router alone: chat requests with every shape of body                *)
(***************************************************************************)
NextRouter ==
    \E data \in Bodies, request_id \in Tokens :
        /\ system_status.requests_processed < MaxRouterRequests
        /\ Chat(data, request_id)

SpecRouter == Init /\ [][NextRouter]_vars

(***************************************************************************)
(* The generators: chat requests with a message of each category and tool  *)
(***************************************************************************)
\* Generate RUST code
M_GenerateRust ==
    Str(<<"G", "e", "n", "e", "r", "a", "t", "e", " ", "R", "U", "S", "T", " ",
          "c", "o", "d", "e">>)

\* explain this code
M_explain_code ==
    Str(<<"e", "x", "p", "l", "a", "i", "n", " ", "t", "h", "i", "s", " ", "c",
          "o", "d", "e">>)

\* IMPROVE this
M_IMPROVE ==
    Str(<<"I", "M", "P", "R", "O", "V", "E", " ", "t", "h", "i", "s">>)

\* the messages of the generator scenarios
GeneratorMessages ==
    {M_hi, M_generate, M_GenerateRust, M_explain_code, M_IMPROVE,
     \* create a javascript app
     Str(<<"c", "r", "e", "a", "t", "e", " ", "a", " ", "j", "a", "v", "a",
           "s", "c", "r", "i", "p", "t", " ", "a", "p", "p">>),
     \* create java and python
     Str(<<"c", "r", "e", "a", "t", "e", " ", "j", "a", "v", "a", " ", "a",
           "n", "d", " ", "p", "y", "t", "h", "o", "n">>),
     \* generate typescript
     Str(<<"g", "e", "n", "e", "r", "a", "t", "e", " ", "t", "y", "p", "e",
           "s", "c", "r", "i", "p", "t">>),
     \* create c++ code
     Str(<<"c", "r", "e", "a", "t", "e", " ", "c", "+", "+", " ", "c", "o",
           "d", "e">>),
     \* generate a good react page
     Str(<<"g", "e", "n", "e", "r", "a", "t", "e", " ", "a", " ", "g", "o",
           "o", "d", " ", "r", "e", "a", "c", "t", " ", "p", "a", "g", "e">>),
     \* create a thing
     Str(<<"c", "r", "e", "a", "t", "e", " ", "a", " ", "t", "h", "i", "n",
           "g">>),
     \* please create go
     Str(<<"p", "l", "e", "a", "s", "e", " ", "c", "r", "e", "a", "t", "e",
           " ", "g", "o">>),
     \* how to build code
     Str(<<"h", "o", "w", " ", "t", "o", " ", "b", "u", "i", "l", "d", " ",
           "c", "o", "d", "e">>),
     \* what idea
     Str(<<"w", "h", "a", "t", " ", "i", "d", "e", "a">>),
     \* suggest version
     Str(<<"s", "u", "g", "g", "e", "s", "t", " ", "v", "e", "r", "s", "i",
           "o", "n">>),
     \* status
     Str(<<"s", "t", "a", "t", "u", "s">>),
     \* python help
     Str(<<"p", "y", "t", "h", "o", "n", " ", "h", "e", "l", "p">>),
     \* WHAT
     Str(<<"W", "H", "A", "T">>),
     \* js api
     Str(<<"j", "s", " ", "a", "p", "i">>),
     \* self code
     Str(<<"s", "e", "l", "f", " ", "c", "o", "d", "e">>),
     \* run Empirical test
     Str(<<"r", "u", "n", " ", "E", "m", "p", "i", "r", "i", "c", "a", "l",
           " ", "t", "e", "s", "t">>)}

\* a message of GeneratorMessages sent with each tool
GeneratorBodies ==
    {Object(m, Absent, Context(t), 0) :
        m \in GeneratorMessages, t \in KnownTools \cup {Str(W_chat)}}

NextGenerators ==
    \E data \in GeneratorBodies, request_id \in Tokens :
        /\ system_status.requests_processed < MaxGeneratorRequests
        /\ Chat(data, request_id)

SpecGenerators == Init /\ [][NextGenerators]_vars

(***************************************************************************)
(* The upstream bridge, called as a function                               *)
(***************************************************************************)
\* what session.post(...) comes to: a response with a status, or an exception of aiohttp
Answered(status, content) == [k |-> "response", status |-> status, content |-> content]

TransportFailure == [k |-> "raised", status |-> 0, content |-> NoText]

Completions == {Text("completion", <<"a">>), Text("completion", <<"b">>)}

Upstreams ==
    {Answered(200, c) : c \in Completions}
    \cup {Answered(status, NoText) : status \in {400, 401, 429, 500, 503}}
    \cup {TransportFailure}

FallbackTemplates ==
    <<"fallback_chatloop_assistant", "fallback_system_integration",
      "fallback_technical_assistant">>

\* get_fallback_response(message), where hash(message) % 3 = h
get_fallback_response(message, h) == Returned(Text(FallbackTemplates[h + 1], <<message>>))

\* await call_openrouter_api(message), the provider answering with upstream
call_openrouter_api(message, upstream) ==
    IF upstream.k = "raised" THEN Raised("aiohttp.ClientError")
    ELSE IF upstream.status = 200 THEN Returned(upstream.content)
    ELSE Raised("'ChatLoopAPI' object has no attribute 'get_smart_fallback_response'")

BridgeCall(function, message, upstream) ==
    [k |-> function, message |-> message, upstream |-> upstream]

CallOpenRouterApi(message, upstream) ==
    /\ request' = Request("call_openrouter_api",
                          BridgeCall("call_openrouter_api", message, upstream), Absent)
    /\ workers' = workers
    /\ resp' = Response("call_openrouter_api", 0, call_openrouter_api(message, upstream))
    /\ UNCHANGED <<chat_sessions, system_status, now, appended, appends, issued>>

GetFallbackResponse(message, h) ==
    /\ request' = Request("get_fallback_response",
                          BridgeCall("get_fallback_response", message, Answered(h, NoText)),
                          Absent)
    /\ workers' = workers
    /\ resp' = Response("get_fallback_response", 0, get_fallback_response(message, h))
    /\ UNCHANGED <<chat_sessions, system_status, now, appended, appends, issued>>

NextBridge ==
    \/ \E message \in GeneratorMessages, upstream \in Upstreams :
          CallOpenRouterApi(message.s, upstream)
    \/ \E message \in GeneratorMessages, h \in 0..2 : GetFallbackResponse(message.s, h)

SpecBridge == Init /\ [][NextBridge]_vars

(***************************************************************************)
(* Chat requests handled on worker threads, statement by statement         *)
(***************************************************************************)
ThreadBodies ==
    {NoBody,
     Object(M_hi, Absent, NoContext, 0),
     Object(M_hi, Str(<<"a", "1">>), Context(Str(W_benchmark)), 0),
     Object(Five, Absent, NoContext, 0),
     Object(M_hi, EmptyList, NoContext, 0)}

\* the request a worker is handling, as the handler read it
Handling(w) == ParseChat(workers[w].data)

\* request.get_json(), the message check and the reads of the body
Receive(w, data) ==
    LET p == ParseChat(data)
    IN  /\ workers[w].pc = "idle"
        /\ workers' =
              [workers EXCEPT ![w] =
                  CASE p.outcome = "invalid" ->
                           [@ EXCEPT !.pc = "done", !.data = data,
                                     !.resp = Response("chat", 400,
                                                       ErrorBody("Message required"))]
                    [] p.outcome = "raised" ->
                           [@ EXCEPT !.pc = "done", !.data = data,
                                     !.resp = ExceptionResponse(p.error)]
                    [] OTHER -> [@ EXCEPT !.pc = "load", !.data = data]]
        /\ UNCHANGED <<chat_sessions, system_status, now, request, resp,
                       appended, appends, issued>>

\* requests_processed += 1: the value is read
LoadCounter(w) ==
    /\ workers[w].pc = "load"
    /\ workers' = [workers EXCEPT ![w].pc = "store",
                                  ![w].read = system_status.requests_processed]
    /\ UNCHANGED <<chat_sessions, system_status, now, request, resp,
                   appended, appends, issued>>

\* requests_processed += 1: the value read, plus one, is written
StoreCounter(w) ==
    /\ workers[w].pc = "store"
    /\ system_status' = [system_status EXCEPT !.requests_processed = workers[w].read + 1]
    /\ workers' = [workers EXCEPT ![w].pc = "generate", ![w].counted = TRUE]
    /\ UNCHANGED <<chat_sessions, now, request, resp, appended, appends, issued>>

\* the response generated, and the test session_id not in self.chat_sessions
Generate(w) ==
    LET p == Handling(w)
        g == Dispatch(p.tool_mode, p.message)
    IN  /\ workers[w].pc = "generate"
        /\ workers' =
              [workers EXCEPT ![w] =
                  IF g.raised
                  THEN [@ EXCEPT !.pc = "done", !.resp = ExceptionResponse(g.error)]
                  ELSE IF ~Hashable(p.session_id)
                  THEN [@ EXCEPT !.pc = "done", !.result = g,
                                 !.resp = ExceptionResponse("unhashable type: 'list'")]
                  ELSE IF p.session_id \notin DOMAIN chat_sessions
                  THEN [@ EXCEPT !.pc = "create", !.result = g]
                  ELSE [@ EXCEPT !.pc = "append", !.result = g]]
        /\ UNCHANGED <<chat_sessions, system_status, now, request, resp,
                       appended, appends, issued>>

\* self.chat_sessions[session_id] = []
CreateList(w) ==
    LET p == Handling(w)
    IN  /\ workers[w].pc = "create"
        /\ chat_sessions' = [Ensure(chat_sessions, p.session_id) EXCEPT ![p.session_id] = <<>>]
        /\ appended' = [Ensure(appended, p.session_id) EXCEPT ![p.session_id] = <<>>]
        /\ workers' = [workers EXCEPT ![w].pc = "append"]
        /\ UNCHANGED <<system_status, now, request, resp, appends, issued>>

\* self.chat_sessions[session_id].append({...})
AppendEntry(w) ==
    /\ workers[w].pc = "append"
    /\ LET p == Handling(w)
           g == workers[w].result
           entry == Entry(now, p.message, g.value, p.tool_mode, p.session_id)
       IN  /\ chat_sessions' = [chat_sessions EXCEPT ![p.session_id] = Append(@, entry)]
           /\ appended' = [appended EXCEPT ![p.session_id] = Append(@, entry)]
    /\ appends' = appends + 1
    /\ now' = now + 1
    /\ workers' = [workers EXCEPT ![w].pc = "trim"]
    /\ UNCHANGED <<system_status, request, resp, issued>>

\* "Keep only last 100 messages per session"
Trim(w) ==
    LET p == Handling(w)
    IN  /\ workers[w].pc = "trim"
        /\ chat_sessions' = [chat_sessions EXCEPT ![p.session_id] = KeepLast(@)]
        /\ workers' = [workers EXCEPT ![w].pc = "respond"]
        /\ UNCHANGED <<system_status, now, request, resp, appended, appends, issued>>

\* return jsonify({...})
Respond(w, request_id) ==
    /\ workers[w].pc = "respond"
    /\ LET p == Handling(w)
           g == workers[w].result
       IN  workers' =
              [workers EXCEPT ![w].pc = "done",
                              ![w].resp =
                                  Response("chat", 200,
                                           [response |-> g.value, mode |-> p.tool_mode,
                                            session_id |-> p.session_id, timestamp |-> now,
                                            request_id |-> Str(request_id),
                                            independent_mode |-> TRUE])]
    /\ now' = now + 1
    /\ UNCHANGED <<chat_sessions, system_status, request, resp, appended, appends, issued>>

NextThreads ==
    \E w \in Workers :
        \/ \E data \in ThreadBodies : Receive(w, data)
        \/ LoadCounter(w)
        \/ StoreCounter(w)
        \/ Generate(w)
        \/ CreateList(w)
        \/ AppendEntry(w)
        \/ Trim(w)
        \/ \E request_id \in Tokens : Respond(w, request_id)

SpecThreads == Init /\ [][NextThreads]_vars

(***************************************************************************)
(* A session filled by requests that do not overlap, then one request on a *)
(* worker thread while the session is read                                 *)
(***************************************************************************)
ObservedBodies == {Object(M_hi, Str(<<"a", "1">>), Context(Str(W_benchmark)), 0)}

NextObserved ==
    \/ \E data \in ObservedBodies, request_id \in Tokens :
          /\ system_status.requests_processed < MaxWindowRequests
          /\ workers["w1"].pc = "idle"
          /\ Chat(data, request_id)
    \/ \E data \in ObservedBodies : Receive("w1", data)
    \/ LoadCounter("w1")
    \/ StoreCounter("w1")
    \/ Generate("w1")
    \/ CreateList("w1")
    \/ AppendEntry("w1")
    \/ Trim("w1")
    \/ \E request_id \in Tokens : Respond("w1", request_id)
    \/ \E session_id \in PathIds : GetSession(session_id)

SpecObserved == Init /\ [][NextObserved]_vars

(***************************************************************************)
(* Improvement runs and component generation, among chats and creations    *)
(***************************************************************************)
ComponentBodies ==
    {NoBody, Number(0), Number(5), List(<<>>), List(<<W_component>>), List(<<W_chat>>),
     Component(Absent, 0), Component(Absent, 1), Component(Null, 0), Component(Five, 0),
     Component(Str(W_chat), 0), Component(Str(Title(W_improved_chat)), 0)}
    \cup {Component(Str(c), e) :
            c \in {W_improved_chat, W_advanced_api, W_self_improvement_engine}, e \in 0..1}

NextComponents ==
    \/ \E data \in SessionBodies, request_id \in Tokens :
          /\ system_status.requests_processed < MaxGeneratorRequests
          /\ Chat(data, request_id)
    \/ \E token \in Tokens :
          /\ system_status.total_sessions < MaxGeneratorRequests
          /\ CreateSession(token)
    \/ now < MaxClock /\ RunImprovement
    \/ \E data \in ComponentBodies : now < MaxClock /\ GenerateSystem(data)
    \/ GetStatus

SpecComponents == Init /\ [][NextComponents]_vars

(***************************************************************************)
(* The response generated call by call: the frames of the methods entered  *)
(* for a chat request and not yet returned from                            *)
(***************************************************************************)
Frame(function, message) == [function |-> function, message |-> message]

\* chat: "Process based on tool mode"
Entered(tool_mode) ==
    IF tool_mode = Str(W_generate) THEN "process_code_generation"
    ELSE IF tool_mode = Str(W_improve) THEN "process_empirical_improvement"
    ELSE IF tool_mode = Str(W_benchmark) THEN "process_benchmarking"
    ELSE "process_chat_message"

\* get_independent_response: the method returned from, by the first category that matches
Category(message_lower) ==
    IF AnyIn(SelfGenerationWords, message_lower) THEN "get_self_generation_response"
    ELSE IF AnyIn(CodeWords, message_lower) THEN "get_code_response"
    ELSE IF AnyIn(QuestionWords, message_lower) THEN "get_help_response"
    ELSE IF AnyIn(SuggestionWords, message_lower) THEN "get_suggestion_response"
    ELSE IF AnyIn(StatusWords, message_lower) THEN "get_system_response"
    ELSE "get_contextual_response"

NoCall == ""

\* get_self_generation_response calling itself on the words self, generate, create,
\* improve, system
CalleeRecursive(function, message) ==
    IF function = "process_chat_message" THEN "get_independent_response"
    ELSE IF function = "get_independent_response" /\ message.k = "str"
    THEN Category(Lower(message.s))
    ELSE IF /\ function = "get_self_generation_response"
            /\ AnyIn(<<W_self, W_generate, W_create, W_improve, W_system>>, Lower(message.s))
    THEN "get_self_generation_response"
    ELSE NoCall

\* the method a method calls with the message it was given, NoCall when it returns a
\* text of its own or raises; get_self_generation_response is the definition in effect
Callee(function, message) ==
    IF function = "process_chat_message" THEN "get_independent_response"
    ELSE IF function = "get_independent_response" /\ message.k = "str"
    THEN Category(Lower(message.s))
    ELSE NoCall

\* what a method that calls no other returns or raises
Computed(function, message) ==
    CASE function = "process_code_generation" -> process_code_generation(message)
      [] function = "process_empirical_improvement" -> process_empirical_improvement(message)
      [] function = "process_benchmarking" -> process_benchmarking(message)
      [] function = "get_independent_response" ->
             Raised(AttributeError(message.k, "lower"))
      [] function = "get_self_generation_response" ->
             Returned(get_self_generation_response(message.s))
      [] function = "get_code_response" -> Returned(get_code_response(message.s))
      [] function = "get_help_response" -> Returned(get_help_response(message.s))
      [] function = "get_suggestion_response" ->
             Returned(get_suggestion_response(message.s))
      [] function = "get_system_response" -> Returned(get_system_response(message.s))
      [] OTHER -> Returned(get_contextual_response(message.s))

\* the frame on top of a worker's stack
Top(w) == workers[w].stack[Len(workers[w].stack)]

\* the generator of the tool is entered
Enter(w) ==
    LET p == Handling(w)
    IN  /\ workers[w].pc = "generate"
        /\ workers' = [workers EXCEPT ![w].pc = "call",
                                      ![w].stack = <<Frame(Entered(p.tool_mode), p.message)>>]
        /\ UNCHANGED <<chat_sessions, system_status, now, request, resp,
                       appended, appends, issued>>

\* the method on top calls another one, or the interpreter refuses the call
Call(w) ==
    /\ workers[w].pc = "call"
    /\ Callee(Top(w).function, Top(w).message) # NoCall
    /\ workers' =
          [workers EXCEPT ![w] =
              IF Len(@.stack) >= RecursionLimit
              THEN [@ EXCEPT !.pc = "return",
                             !.result = Raised("maximum recursion depth exceeded")]
              ELSE [@ EXCEPT !.stack =
                        Append(@, Frame(Callee(Top(w).function, Top(w).message),
                                        Top(w).message))]]
    /\ UNCHANGED <<chat_sessions, system_status, now, request, resp,
                   appended, appends, issued>>

\* the method on top returns a text of its own, or raises
Compute(w) ==
    /\ workers[w].pc = "call"
    /\ Callee(Top(w).function, Top(w).message) = NoCall
    /\ workers' = [workers EXCEPT ![w].pc = "return",
                                  ![w].result = Computed(Top(w).function, Top(w).message)]
    /\ UNCHANGED <<chat_sessions, system_status, now, request, resp,
                   appended, appends, issued>>

\* the method on top returns what it was returned, or lets the exception through
Return(w) ==
    /\ workers[w].pc = "return"
    /\ workers[w].stack # <<>>
    /\ workers' = [workers EXCEPT ![w].stack = SubSeq(@, 1, Len(@) - 1)]
    /\ UNCHANGED <<chat_sessions, system_status, now, request, resp,
                   appended, appends, issued>>

\* chat has its response, or the exception, and tests session_id not in self.chat_sessions
Resume(w) ==
    LET p == Handling(w)
        g == workers[w].result
    IN  /\ workers[w].pc = "return"
        /\ workers[w].stack = <<>>
        /\ workers' =
              [workers EXCEPT ![w] =
                  IF g.raised
                  THEN [@ EXCEPT !.pc = "done", !.resp = ExceptionResponse(g.error)]
                  ELSE IF ~Hashable(p.session_id)
                  THEN [@ EXCEPT !.pc = "done",
                                 !.resp = ExceptionResponse("unhashable type: 'list'")]
                  ELSE IF p.session_id \notin DOMAIN chat_sessions
                  THEN [@ EXCEPT !.pc = "create"]
                  ELSE [@ EXCEPT !.pc = "append"]]
        /\ UNCHANGED <<chat_sessions, system_status, now, request, resp,
                       appended, appends, issued>>

CallBodies ==
    {Object(m, Absent, Context(t), 0) :
        m \in {M_hi, M_IMPROVE, M_explain_code},
        t \in KnownTools \cup {Str(W_chat)}}
    \cup {Object(M_generate, Absent, Context(Str(W_chat)), 0),
          Object(M_generate, Absent, NoContext, 0),
          NoBody, Object(M_hi, EmptyList, NoContext, 0)}

\* the steps of a request that was received
Proceed(w) ==
    \/ LoadCounter(w)
    \/ StoreCounter(w)
    \/ Enter(w)
    \/ Call(w)
    \/ Compute(w)
    \/ Return(w)
    \/ Resume(w)
    \/ CreateList(w)
    \/ AppendEntry(w)
    \/ Trim(w)
    \/ \E request_id \in Tokens : Respond(w, request_id)

NextCalls ==
    \/ \E data \in CallBodies : Receive("w1", data)
    \/ Proceed("w1")

\* the thread that handles a request keeps running until the request is answered
SpecCalls == Init /\ [][NextCalls]_vars /\ WF_vars(Proceed("w1"))

(***************************************************************************)
(* A client that repeats one request, to fill a session past its cap       *)
(***************************************************************************)
WindowBodies ==
    {Object(M_hi, Absent, NoContext, 0),
     Object(M_hi, Str(<<"a", "1">>), Context(Str(W_benchmark)), 0),
     Object(M_generate, Null, Context(T_other), 0)}

\* data is the request every entry so far came from
Repeats(data) ==
    LET p == ParseChat(data)
    IN  \A sid \in DOMAIN appended :
            \A i \in DOMAIN appended[sid] :
                /\ appended[sid][i].input = p.message
                /\ appended[sid][i].mode = p.tool_mode
                /\ sid = p.session_id

NextWindow ==
    \/ \E data \in WindowBodies, request_id \in Tokens :
          /\ system_status.requests_processed < MaxWindowRequests
          /\ Repeats(data)
          /\ Chat(data, request_id)
    \/ \E token \in Tokens :
          /\ now < MaxClock
          /\ CreateSession(token)
    \/ \E session_id \in PathIds : GetSession(session_id)

SpecWindow == Init /\ [][NextWindow]_vars

(***************************************************************************)
(* Properties                                                              *)
(***************************************************************************)
\* the elements of a sequence
Range(seq) == {seq[i] : i \in DOMAIN seq}

\* the last n elements of a sequence, all of it when it has fewer
LastOf(seq, n) == [i \in 1..(IF Len(seq) < n THEN Len(seq) ELSE n) |->
                      seq[i + (IF Len(seq) < n THEN 0 ELSE Len(seq) - n)]]

\* C1: after any sequence of completed requests, every session in chat_sessions
\* holds at most 100 entries
C1_SessionAtMost100 ==
    \A sid \in DOMAIN chat_sessions : Len(chat_sessions[sid]) <= 100

\* a session that has been appended to more than 100 times and is full
C1_Witness ==
    \E sid \in DOMAIN chat_sessions :
        /\ Len(appended[sid]) > 100
        /\ Len(chat_sessions[sid]) = 100

\* C2: a session is a sliding window over its append history: after n appends it
\* holds exactly the last min(n, 100) appended entries in append order; after 101
\* appends the first entry is absent and the 101st is the last entry
C2_SlidingWindow ==
    /\ DOMAIN appended = DOMAIN chat_sessions
    /\ \A sid \in DOMAIN chat_sessions :
          /\ chat_sessions[sid] = LastOf(appended[sid], 100)
          /\ Len(appended[sid]) = 101 =>
                /\ appended[sid][1] \notin Range(chat_sessions[sid])
                /\ chat_sessions[sid][Len(chat_sessions[sid])] = appended[sid][101]

\* a session after exactly 101 appends, the read endpoint showing its 100 entries
C2_Witness ==
    /\ resp.endpoint = "get_session"
    /\ resp.status = 200
    /\ Len(appended[resp.body.session_id]) = 101
    /\ resp.body.message_count = 100

\* C3: POST /api/sessions returns an id that it has not returned before and that is
\* not already a key of the session store
C3_FreshSessionId ==
    [][request'.endpoint = "create_session" =>
          /\ resp'.body.session_id \notin Range(issued)
          /\ resp'.body.session_id \notin DOMAIN chat_sessions]_vars

\* C4: POST /api/chat with a body that is absent, empty or without a 'message' key
\* returns the 400 'Message required' error and changes nothing
NoMessage(data) ==
    \/ data.k = "none"
    \/ data.k = "num" /\ data.num = 0
    \/ data.k = "list" /\ W_message \notin Range(data.items)
    \/ data.k = "obj" /\ data.message.k = "absent"

C4_MessageRequired ==
    [][(request'.endpoint = "chat" /\ NoMessage(request'.data)) =>
          /\ resp' = [endpoint |-> "chat", status |-> 400,
                      body |-> [error |-> "Message required"]]
          /\ UNCHANGED <<chat_sessions, system_status, now, appended, appends, issued>>]_vars

\* an object with other keys but no message, refused after a request that was counted
C4_Witness ==
    /\ request.endpoint = "chat"
    /\ request.data.k = "obj"
    /\ request.data.message.k = "absent"
    /\ request.data.session_id.k = "str"
    /\ resp.status = 400
    /\ system_status.requests_processed = 1
    /\ appends = 1

\* C5: GET /api/sessions/{id} for an id that is not a key of the session store returns
\* the 404 'Session not found' response and changes no state
C5_UnknownSession404 ==
    [][(request'.endpoint = "get_session" /\ request'.session_id \notin DOMAIN chat_sessions) =>
          /\ resp' = [endpoint |-> "get_session", status |-> 404,
                      body |-> [error |-> "Session not found"]]
          /\ UNCHANGED <<chat_sessions, system_status, now, appended, appends, issued>>]_vars

\* the 404 for an unknown id while the store holds another session
C5_Witness ==
    /\ request.endpoint = "get_session"
    /\ request.session_id \notin DOMAIN chat_sessions
    /\ resp.status = 404
    /\ chat_sessions # <<>>

\* the chat request handled last, as the handler read it
LastChat == ParseChat(request.data)

\* the entry the chat request handled last stored
LastEntry ==
    chat_sessions[LastChat.session_id][Len(chat_sessions[LastChat.session_id])]

\* the request handled last is a chat request with a message and a tool value outside
\* {generate, improve, benchmark} (an absent context or tool included)
OutsideKnown ==
    /\ request.endpoint = "chat"
    /\ LastChat.outcome = "parsed"
    /\ LastChat.tool_mode \notin {Str(W_generate), Str(W_improve), Str(W_benchmark)}

\* C6, as claimed: for a tool value outside {generate, improve, benchmark} the request
\* behaves identically to tool = "chat": same response text, same reported mode, same
\* entry stored
C6_IdenticalToChat ==
    (OutsideKnown /\ resp.status = 200) =>
        /\ resp.body.response = process_chat_message(LastChat.message).value
        /\ resp.body.mode = Str(W_chat)
        /\ LastEntry.output = process_chat_message(LastChat.message).value
        /\ LastEntry.mode = Str(W_chat)

\* C6, amended: for a tool value outside {generate, improve, benchmark} the response
\* text (or the error) and the stored input, output and session are those of
\* tool = "chat"; the mode reported and stored is the raw tool value
C6_ChatResponderRawMode ==
    OutsideKnown =>
        LET chat == process_chat_message(LastChat.message)
        IN  IF chat.raised
            THEN resp.status = 500 /\ resp.body.error = chat.error
            ELSE IF LastChat.session_id.k \in {"list", "obj"}
            THEN resp.status = 500
            ELSE /\ resp.status = 200
                 /\ resp.body.response = chat.value
                 /\ resp.body.mode = LastChat.tool_mode
                 /\ resp.body.session_id = LastChat.session_id
                 /\ LastEntry.input = LastChat.message
                 /\ LastEntry.output = chat.value
                 /\ LastEntry.mode = LastChat.tool_mode
                 /\ LastEntry.session_id = LastChat.session_id

\* an unknown tool answered by the chat responder and reported as it was sent
C6_Witness ==
    /\ OutsideKnown
    /\ resp.status = 200
    /\ resp.body.mode = Str(<<"x", "y", "z">>)
    /\ LastEntry.mode = Str(<<"x", "y", "z">>)

\* the tool of the chat request handled last is a case variant of generate, improve or
\* benchmark and not the lower-case value itself
CaseVariant ==
    /\ OutsideKnown
    /\ LastChat.tool_mode.k = "str"
    /\ Str(Lower(LastChat.tool_mode.s)) \in {Str(W_generate), Str(W_improve), Str(W_benchmark)}

\* the response text of the generator of a lower-case tool value
GeneratorOf(tool, message) ==
    IF tool = Str(W_generate) THEN process_code_generation(message)
    ELSE IF tool = Str(W_improve) THEN process_empirical_improvement(message)
    ELSE process_benchmarking(message)

\* C7, as claimed: a case variant of generate, improve or benchmark is handled by the
\* same generator as the lower-case value
C7_CaseInsensitive ==
    (CaseVariant /\ resp.status = 200) =>
        resp.body.response =
            GeneratorOf(Str(Lower(LastChat.tool_mode.s)), LastChat.message).value

\* C7, amended: dispatch on the tool field is by exact comparison: the lower-case values
\* generate, improve and benchmark select their generators, and any other case variant
\* is handled by the chat responder
C7_CaseSensitive ==
    (request.endpoint = "chat" /\ LastChat.outcome = "parsed" /\ resp.status = 200) =>
        /\ ~OutsideKnown =>
              resp.body.response = GeneratorOf(LastChat.tool_mode, LastChat.message).value
        /\ CaseVariant =>
              resp.body.response = process_chat_message(LastChat.message).value

\* 'Generate' with a message the code generator would have templated
C7_Witness ==
    /\ CaseVariant
    /\ resp.status = 200
    /\ LastChat.tool_mode = Str(<<"G", "e", "n", "e", "r", "a", "t", "e">>)
    /\ process_code_generation(LastChat.message).value.template = "generating_code"
    /\ resp.body.response.template = "self_generating_ai_system"

\* C8: requests_processed and total_sessions never decrease
C8_CountersMonotonic ==
    [][/\ system_status'.requests_processed >= system_status.requests_processed
       /\ system_status'.total_sessions >= system_status.total_sessions]_vars

\* both counters have been stepped and are read
C8_Witness ==
    /\ resp.endpoint = "get_status"
    /\ resp.body.requests_processed >= 2
    /\ resp.body.total_sessions >= 1

\* C9, as claimed: every POST /api/chat request that carries a 'message' key increments
\* requests_processed by one and appends one entry
C9_BothSideEffects ==
    [][(request'.endpoint = "chat" /\ request'.data.k = "obj"
            /\ request'.data.message.k # "absent") =>
          /\ system_status'.requests_processed = system_status.requests_processed + 1
          /\ appends' = appends + 1]_vars

\* the number of entries of a session, none when there is no such session
Count(sessions, sid) == IF sid \in DOMAIN sessions THEN Len(sessions[sid]) ELSE 0

\* C9, amended: a chat request answered 200 increments requests_processed by one and
\* appends one entry to the resolved session; one answered 500 appends nothing and
\* increments requests_processed at most once; one answered 400 does neither; so
\* requests_processed is at least the number of entries ever appended
C9_SideEffectsOfSuccess ==
    /\ [][request'.endpoint = "chat" =>
            LET sid == ParseChat(request'.data).session_id
                rp == system_status.requests_processed
            IN  CASE resp'.status = 200 ->
                       /\ system_status'.requests_processed = rp + 1
                       /\ appends' = appends + 1
                       /\ Count(chat_sessions', sid) =
                             IF Count(chat_sessions, sid) < 100
                             THEN Count(chat_sessions, sid) + 1 ELSE 100
                       /\ \A other \in DOMAIN chat_sessions' \ {sid} :
                             /\ other \in DOMAIN chat_sessions
                             /\ chat_sessions'[other] = chat_sessions[other]
                  [] resp'.status = 500 ->
                       /\ system_status'.requests_processed \in {rp, rp + 1}
                       /\ appends' = appends
                       /\ chat_sessions' = chat_sessions
                  [] OTHER ->
                       /\ system_status'.requests_processed = rp
                       /\ appends' = appends
                       /\ chat_sessions' = chat_sessions]_vars
    /\ [](appends <= system_status.requests_processed)

\* a stored request after one that was counted and failed
C9_Witness ==
    /\ request.endpoint = "chat"
    /\ resp.status = 200
    /\ appends = 2
    /\ system_status.requests_processed = 3

\* C10: an exception raised while handling POST /api/chat becomes a 500 response with
\* the error text; the request ends in a 200, 400 or 500 response
C10_ExceptionsBecome500 ==
    request.endpoint = "chat" =>
        LET data == request.data
            readable == data.k = "obj" /\ data.message.k # "absent"
            tool == IF data.context.k = "obj" THEN data.context.tool ELSE Str(W_chat)
        IN  /\ resp.status \in {200, 400, 500}
            /\ resp.status = 500 => resp.body.error \notin {"", "Internal Server Error"}
            /\ (readable /\ data.context.k = "null") =>
                  /\ resp.status = 500
                  /\ resp.body.error = "'NoneType' object has no attribute 'get'"
            /\ (readable /\ data.context.k = "str") =>
                  /\ resp.status = 500
                  /\ resp.body.error = "'str' object has no attribute 'get'"
            /\ (readable /\ data.context.k \in {"absent", "obj"} /\ data.message.k = "num"
                    /\ tool # Str(W_benchmark)) =>
                  /\ resp.status = 500
                  /\ resp.body.error = "'int' object has no attribute 'lower'"
            /\ (readable /\ data.context.k \in {"absent", "obj"} /\ data.message.k = "str"
                    /\ data.session_id.k = "list") =>
                  /\ resp.status = 500
                  /\ resp.body.error = "unhashable type: 'list'"

\* a non-string message answered 500 with the text of its exception, by a service that
\* has answered another request 200
C10_Witness ==
    /\ request.endpoint = "chat"
    /\ request.data.message.k = "num"
    /\ resp.status = 500
    /\ resp.body.error = "'int' object has no attribute 'lower'"
    /\ system_status.requests_processed = 2
    /\ appends = 1

\* C11: a session comes into existence on a chat message to an unseen identifier or by
\* POST /api/sessions, and an identifier that is a key of the session store stays a key
\* after every later request
C11_SessionsPersist ==
    [][/\ DOMAIN chat_sessions \subseteq DOMAIN chat_sessions'
       /\ (request'.endpoint = "chat" /\ resp'.status = 200) =>
             /\ ParseChat(request'.data).session_id \in DOMAIN chat_sessions'
             /\ DOMAIN chat_sessions' \subseteq
                   DOMAIN chat_sessions \cup {ParseChat(request'.data).session_id}
       /\ request'.endpoint = "create_session" =>
             /\ resp'.body.session_id \in DOMAIN chat_sessions'
             /\ DOMAIN chat_sessions' \subseteq
                   DOMAIN chat_sessions \cup {resp'.body.session_id}
       /\ (request'.endpoint \notin {"chat", "create_session"}
              \/ (request'.endpoint = "chat" /\ resp'.status # 200)) =>
             DOMAIN chat_sessions' = DOMAIN chat_sessions]_vars

\* two sessions made by chat messages and one made by POST /api/sessions, all listed
C11_Witness ==
    /\ resp.endpoint = "get_sessions"
    /\ resp.body.total_sessions = 3
    /\ system_status.total_sessions = 1
    /\ appends = 2

\* C12: total_sessions of the status counts the sessions created, by POST /api/sessions
\* or by a first chat message to an unseen id, and agrees with the total_sessions that
\* GET /api/sessions reports
C12_TotalSessionsCounted ==
    /\ system_status.total_sessions = Cardinality(DOMAIN chat_sessions)
    /\ resp.endpoint = "get_sessions" =>
          resp.body.total_sessions = system_status.total_sessions

\* C19: an entry keeps its fields for as long as it is in a session: a request leaves
\* each session as it was, less entries dropped from the front, plus at most one entry
\* added at the end
C19_EntriesImmutable ==
    [][\A sid \in DOMAIN chat_sessions :
          /\ sid \in DOMAIN chat_sessions'
          /\ \E added \in 0..1 :
                LET before == chat_sessions[sid]
                    after == chat_sessions'[sid]
                    dropped == Len(before) + added - Len(after)
                IN  /\ dropped \in 0..Len(before)
                    /\ \A i \in 1..(Len(before) - dropped) : after[i] = before[i + dropped]]_vars

\* a full session that has dropped two entries from the front and kept the rest in place
C19_Witness ==
    \E sid \in DOMAIN chat_sessions :
        /\ Len(appended[sid]) = 102
        /\ chat_sessions[sid][1] = appended[sid][3]
        /\ chat_sessions[sid][100] = appended[sid][102]

\* C13: GET /api/benchmark changes no state, and a call returns the current_metrics,
\* improvements and history that the call before it returned, whatever the state of the
\* sessions, the counters and the clock
C13_BenchmarkIdempotent ==
    [][request'.endpoint = "get_benchmarks" =>
          /\ UNCHANGED <<chat_sessions, system_status, now>>
          /\ resp'.status = 200
          /\ resp'.body.current_metrics.accuracy = "100.0"
          /\ resp'.body.improvements.overall = "significant"
          /\ Len(resp'.body.history) = 3
          /\ resp'.body.history[1].date = "2024-09-30"
          /\ \A other \in {resp, resp'} :
                other.endpoint = "get_benchmarks" =>
                    /\ other.body.current_metrics = resp'.body.current_metrics
                    /\ other.body.improvements = resp'.body.improvements
                    /\ other.body.history = resp'.body.history]_vars

\* the benchmarks read after a chat message was stored and a session was created
C13_Witness ==
    /\ resp.endpoint = "get_benchmarks"
    /\ resp.body.history[3].accuracy = "95.2"
    /\ appends = 1
    /\ system_status.total_sessions = 1

\* the request handled last is a chat request with a message and this tool
SentTo(tool) ==
    /\ request.endpoint = "chat"
    /\ LastChat.outcome = "parsed"
    /\ LastChat.tool_mode = Str(tool)

\* the text of the request handled last is a str that contains one of the two words,
\* letter case aside
SentWith(word, other) ==
    /\ LastChat.message.k = "str"
    /\ \/ Contains(word, Lower(LastChat.message.s))
       \/ Contains(other, Lower(LastChat.message.s))

\* the language named for a lower-cased message: the first keyword of the list that occurs
NamedLanguage(low) ==
    IF Contains(<<"p", "y", "t", "h", "o", "n">>, low)
    THEN <<"P", "y", "t", "h", "o", "n">>
    ELSE IF Contains(<<"j", "a", "v", "a", "s", "c", "r", "i", "p", "t">>, low)
    THEN <<"J", "a", "v", "a", "s", "c", "r", "i", "p", "t">>
    ELSE IF Contains(<<"r", "e", "a", "c", "t">>, low)
    THEN <<"R", "e", "a", "c", "t">>
    ELSE IF Contains(<<"g", "o">>, low)
    THEN <<"G", "o">>
    ELSE IF Contains(<<"r", "u", "s", "t">>, low)
    THEN <<"R", "u", "s", "t">>
    ELSE IF Contains(<<"j", "a", "v", "a">>, low)
    THEN <<"J", "a", "v", "a">>
    ELSE IF Contains(<<"c", "+", "+">>, low)
    THEN <<"C", "+", "+">>
    ELSE IF Contains(<<"t", "y", "p", "e", "s", "c", "r", "i", "p", "t">>, low)
    THEN <<"T", "y", "p", "e", "s", "c", "r", "i", "p", "t">>
    ELSE <<"P", "y", "t", "h", "o", "n">>

\* C15: a chat request with tool generate whose message contains generate or create is
\* answered with the language of the first keyword of the list python, javascript, react,
\* go, rust, java, c++, typescript that occurs in the lower-cased message, title-cased,
\* and with Python when none occurs; "generate a python function" is answered with Python
C15_LanguageNamed ==
    (SentTo(W_generate) /\ SentWith(W_generate, W_create)) =>
        /\ resp.status = 200
        /\ resp.body.response.template = "generating_code"
        /\ resp.body.response.args[1] = NamedLanguage(Lower(LastChat.message.s))
        /\ LastChat.message = M_generate =>
              resp.body.response.args[1] = <<"P", "y", "t", "h", "o", "n">>

\* a keyword written in capitals is found and named
C15_Witness ==
    /\ SentTo(W_generate)
    /\ LastChat.message = M_GenerateRust
    /\ resp.status = 200
    /\ resp.body.response.args[1] = <<"R", "u", "s", "t">>

\* C16: the code generation responder returns the templated block exactly when the
\* message contains generate or create in any letter case, and the capability listing
\* otherwise; the description of the templated block contains neither word, in whatever
\* letter case
C16_DescriptionStripped ==
    (SentTo(W_generate) /\ LastChat.message.k = "str") =>
        /\ resp.status = 200
        /\ resp.body.response.template =
              IF SentWith(W_generate, W_create) THEN "generating_code" ELSE "code_capabilities"
        /\ SentWith(W_generate, W_create) =>
              /\ ~Contains(W_generate, Lower(resp.body.response.args[2]))
              /\ ~Contains(W_create, Lower(resp.body.response.args[2]))

\* C17: the chat responder answers with the template of the first of the categories
\* self-generation, code, question, suggestion, status whose keywords occur in the
\* lower-cased message, whatever later categories match too, and with the contextual
\* template holding the message when none matches
C17_FirstMatchWins ==
    (OutsideKnown /\ LastChat.message.k = "str") =>
        LET low == Lower(LastChat.message.s)
            matched == <<AnyIn(SelfGenerationWords, low), AnyIn(CodeWords, low),
                         AnyIn(QuestionWords, low), AnyIn(SuggestionWords, low),
                         AnyIn(StatusWords, low)>>
            templates == <<{"self_generating_ai_system"},
                           {"code_python", "code_javascript", "code_self_generation",
                            "code_multi_language"},
                           {"technical_assistance"}, {"smart_suggestions"},
                           {"system_status"}>>
            first == {i \in 1..5 : matched[i] /\ \A j \in 1..(i - 1) : ~matched[j]}
        IN  /\ resp.status = 200
            /\ IF first = {}
               THEN resp.body.response = Text("independent_ai", <<LastChat.message.s>>)
               ELSE \A i \in first :
                        /\ resp.body.response.template \in templates[i]
                        /\ resp.body.response.args = <<>>

\* a message of the code and the question category, answered by the code category
C17_Witness ==
    /\ SentTo(W_chat)
    /\ LastChat.message = M_explain_code
    /\ resp.status = 200
    /\ resp.body.response.template = "code_multi_language"

\* C18: the improvement responder returns the Empirical Improvement Results text exactly
\* when the lower-cased message contains improve or empirical, and its other text
\* otherwise; the benchmark responder returns one text for every message
C18_ImprovementGate ==
    /\ (SentTo(W_improve) /\ LastChat.message.k = "str") =>
          /\ resp.status = 200
          /\ resp.body.response =
                Text(IF SentWith(W_improve, W_empirical)
                     THEN "empirical_improvement_results"
                     ELSE "empirical_improvement_hint", <<>>)
    /\ SentTo(W_benchmark) =>
          /\ resp.status = 200
          /\ resp.body.response = Text("performance_benchmarks", <<>>)

\* a message that passes the gate in capitals only
C18_Witness ==
    /\ SentTo(W_improve)
    /\ LastChat.message = M_IMPROVE
    /\ resp.status = 200
    /\ resp.body.response.template = "empirical_improvement_results"

\* C14: when the provider answers the bridge with a status other than 200, or the call
\* fails in transport, the bridge raises nothing and yields one of the three fallback
\* texts for the message
C14_FallbackOnFailure ==
    (/\ request.endpoint = "call_openrouter_api"
     /\ \/ request.data.upstream.k = "raised"
        \/ request.data.upstream.status # 200) =>
        /\ ~resp.body.raised
        /\ \E h \in 0..2 :
              resp.body = get_fallback_response(request.data.message, h)

\* C20: chat requests handled at the same time on different worker threads each count
\* once: when all are answered, requests_processed has grown by the number of requests
\* that passed the message check, no increment being lost
C20_CounterAtomic ==
    (\A w \in Workers : workers[w].pc = "done") =>
        system_status.requests_processed = Cardinality({w \in Workers : workers[w].counted})

\* C23: a chat request answered 200 touches the resolved session only: the resolved id
\* is the session_id of the body, or default when the body has none; the response names
\* it; that session gains the entry at its end, and every other session keeps its entries
C23_OnlyResolvedSession ==
    [][(request'.endpoint = "chat" /\ resp'.status = 200) =>
          LET given == request'.data.session_id
              resolved == IF given.k = "absent" THEN Str(<<"d", "e", "f", "a", "u", "l", "t">>)
                          ELSE given
              before == IF resolved \in DOMAIN chat_sessions
                        THEN chat_sessions[resolved] ELSE <<>>
              after == chat_sessions'[resolved]
          IN  /\ resp'.body.session_id = resolved
              /\ DOMAIN chat_sessions' = DOMAIN chat_sessions \cup {resolved}
              /\ Len(after) >= 1
              /\ after[Len(after)].session_id = resolved
              /\ after[Len(after)].input = request'.data.message
              /\ after = LastOf(Append(before, after[Len(after)]), 100)
              /\ \A sid \in DOMAIN chat_sessions \ {resolved} :
                    chat_sessions'[sid] = chat_sessions[sid]]_vars

\* a second entry stored in one session while another session keeps its own
C23_Witness ==
    /\ request.endpoint = "chat"
    /\ resp.status = 200
    /\ resp.body.session_id = Str(<<"a", "1">>)
    /\ Len(chat_sessions[Str(<<"a", "1">>)]) = 2
    /\ Str(<<"d", "e", "f", "a", "u", "l", "t">>) \in DOMAIN chat_sessions
    /\ Len(chat_sessions[Str(<<"d", "e", "f", "a", "u", "l", "t">>)]) = 1

\* C24: POST /api/sessions loses no stored conversation: every session that was there
\* before the call holds after it the entries it held before, also when the generated id
\* is one a client had used in a chat request
C24_CreateKeepsEntries ==
    [][request'.endpoint = "create_session" =>
          \A sid \in DOMAIN chat_sessions :
              /\ sid \in DOMAIN chat_sessions'
              /\ chat_sessions'[sid] = chat_sessions[sid]]_vars

\* C25: a chat request answered 500 leaves the session store as it was: no session is
\* created and no entry is appended or dropped
C25_FailureKeepsStore ==
    [][(request'.endpoint = "chat" /\ resp'.status = 500) =>
          /\ chat_sessions' = chat_sessions
          /\ appends' = appends]_vars

\* a counted request to a new session id that failed in its generator, the store holding
\* one entry of another session
C25_Witness ==
    /\ request.endpoint = "chat"
    /\ resp.status = 500
    /\ request.data.message.k = "num"
    /\ system_status.requests_processed = 2
    /\ appends = 1
    /\ DOMAIN chat_sessions = {Str(<<"a", "1">>)}

\* C26: the entry stored for a chat request answered 200 agrees with the response: its
\* input is the message of the request, its output is the response text, and its mode is
\* the raw tool value, which the response reports as mode, also for a tool outside
\* generate, improve, benchmark
C26_EntryAgreesWithResponse ==
    (request.endpoint = "chat" /\ resp.status = 200) =>
        /\ LastEntry.input = request.data.message
        /\ LastEntry.output = resp.body.response
        /\ LastEntry.mode = resp.body.mode
        /\ LastEntry.mode = IF request.data.context.k = "absent"
                               \/ request.data.context.tool.k = "absent"
                            THEN Str(<<"c", "h", "a", "t">>)
                            ELSE request.data.context.tool
        /\ LastEntry.session_id = resp.body.session_id

\* a capitalised tool value stored and reported as it was sent
C26_Witness ==
    /\ request.endpoint = "chat"
    /\ resp.status = 200
    /\ request.data.context.tool = T_BENCHMARK
    /\ LastEntry.mode = T_BENCHMARK
    /\ LastEntry.output.template = "independent_ai"

\* C27: GET /health, GET /api/status, GET /api/sessions, GET /api/sessions/{id} and
\* GET /api/benchmark leave the session store and every field of the status unchanged,
\* whatever they answer
C27_ReadsChangeNothing ==
    [][request'.endpoint \in {"health", "get_status", "get_sessions", "get_session",
                              "get_benchmarks"} =>
          /\ chat_sessions' = chat_sessions
          /\ system_status' = system_status]_vars

\* the session list read while the status counts fewer sessions than the store holds
C27_Witness ==
    /\ resp.endpoint = "get_sessions"
    /\ resp.body.total_sessions = 2
    /\ system_status.total_sessions = 0
    /\ system_status.requests_processed = 3

\* C21: of chat requests to one session id handled at the same time none loses its
\* entry: when all are answered, each session holds one entry for each request that was
\* answered 200 for it (the totals staying below the cap of 100)
C21_NoEntryLost ==
    (\A w \in Workers : workers[w].pc = "done") =>
        \A sid \in DOMAIN chat_sessions :
            Len(chat_sessions[sid]) =
                Cardinality({w \in Workers : /\ workers[w].resp.status = 200
                                             /\ workers[w].resp.body.session_id = sid})

\* C22: GET /api/sessions/{id} handled while chat requests to that session are in
\* progress never sees more than 100 entries, the moment between a request's append and
\* its trim included
C22_ReadAtMost100 ==
    (resp.endpoint = "get_session" /\ resp.status = 200) =>
        /\ resp.body.message_count <= 100
        /\ Len(resp.body.messages) <= 100

\* C28: POST /api/improve sets last_improvement_run and changes nothing else of the
\* status or the session store; last_improvement_run is not null in any state after the
\* first call that succeeded
C28_ImproveSetsLastRun ==
    [][/\ request'.endpoint = "run_improvement" =>
             /\ resp'.status = 200
             /\ resp'.body.success
             /\ system_status'.last_improvement_run.k # "null"
             /\ system_status' =
                   [system_status EXCEPT
                       !.last_improvement_run = system_status'.last_improvement_run]
             /\ chat_sessions' = chat_sessions
       /\ system_status.last_improvement_run.k # "null" =>
             system_status'.last_improvement_run.k # "null"]_vars

\* the status read after a chat was counted, an improvement was run and a session was
\* created
C28_Witness ==
    /\ resp.endpoint = "get_status"
    /\ resp.body.last_improvement_run = [k |-> "str", s |-> <<4>>]
    /\ resp.body.requests_processed = 1
    /\ resp.body.total_sessions = 1
    /\ appends = 1

\* the component asked for is one of the three that are generated
KnownComponent(data) ==
    /\ data.k = "obj"
    /\ data.component.k = "str"
    /\ data.component.s \in {<<"i", "m", "p", "r", "o", "v", "e", "d", "_", "c", "h", "a", "t">>,
                             <<"a", "d", "v", "a", "n", "c", "e", "d", "_", "a", "p", "i">>,
                             W_self_improvement_engine}

\* C29: POST /api/generate returns 400 when the body is absent or has no component key,
\* and 400 when the component is not improved_chat, advanced_api or
\* self_improvement_engine; for these three it returns success with the component asked
\* for and its generated result; in every case the session store and the status are
\* left unchanged
C29_GenerateValidates ==
    [][request'.endpoint = "generate_system" =>
          LET data == request'.data
          IN  /\ chat_sessions' = chat_sessions
              /\ system_status' = system_status
              /\ (data.k = "none" \/ (data.k = "obj" /\ data.component.k = "absent")) =>
                    resp' = [endpoint |-> "generate_system", status |-> 400,
                             body |-> [error |-> "Component type required"]]
              /\ (data.k = "obj" /\ data.component.k # "absent" /\ ~KnownComponent(data)) =>
                    resp' = [endpoint |-> "generate_system", status |-> 400,
                             body |-> [error |-> "Unknown component type"]]
              /\ KnownComponent(data) =>
                    /\ resp'.status = 200
                    /\ resp'.body.success
                    /\ resp'.body.component = data.component
                    /\ resp'.body.result.component =
                          (CASE data.component.s = W_self_improvement_engine ->
                                    "self_improvement_engine"
                             [] Len(data.component.s) = 12 -> "advanced_api_server"
                             [] OTHER -> "improved_chat_interface")]_vars

\* the engine generated while the store holds an entry
C29_Witness ==
    /\ request.endpoint = "generate_system"
    /\ appends = 1
    /\ resp.status = 200
    /\ resp.body.result.version = "3.0.0"
    /\ resp.body.result.component = "self_improvement_engine"

\* the frames of a worker are few and no method is entered twice for one request
BoundedCalls(w) ==
    /\ Len(workers[w].stack) <= 3
    /\ \A i, j \in DOMAIN workers[w].stack :
          i # j => workers[w].stack[i].function # workers[w].stack[j].function
    /\ (workers[w].pc = "return" /\ workers[w].stack = <<>>) =>
          workers[w].result = Dispatch(Handling(w).tool_mode, Handling(w).message)

\* C30: response generation terminates for every message and every tool: the methods
\* entered for a chat request are at most three deep, none is entered again while it is
\* running, and every request that was received is answered
C30_GenerationTerminates ==
    /\ [](BoundedCalls("w1"))
    /\ (workers["w1"].pc # "idle") ~> (workers["w1"].pc = "done")

\* the self-generation method entered from the chat responder, three frames deep
C30_Witness ==
    /\ workers["w1"].pc = "call"
    /\ Len(workers["w1"].stack) = 3
    /\ workers["w1"].stack[3] = Frame("get_self_generation_response", M_generate)

====
